---- MODULE Spec2Model ----
(***************************************************************************)
(* Model of the Openwork analytics dashboard (src/src/App.tsx, the Tremor  *)
(* variant, and src/unnamed/part_000, the Recharts variant).               *)
(*                                                                         *)
(* The component state (useState cells), the poll loop of the mount        *)
(* effect (fetchData, setInterval, clearInterval) and the derived          *)
(* view-models (agentsOverTime, rewardBuckets, topAgents, the job         *)
(* tallies, activityItems) and the useAnimatedNumber hook are modelled.    *)
(* JavaScript values that may be absent are wrapped: Some(v) / None.       *)
(*                                                                         *)
(* Spec                 the poll loop and the component state              *)
(* SpecAgentsOverTime   one render of agentsOverTime over bounded inputs   *)
(* SpecRewardBuckets    one render of rewardBuckets over bounded inputs    *)
(* SpecTopAgents        one render of topAgents over bounded inputs        *)
(* SpecJobTallies       one render of jobsByStatus, statusData,            *)
(*                      jobsByType, jobTypeData over bounded inputs        *)
(* SpecActivityItems    one render of activityItems over bounded inputs    *)
(* SpecAnimatedNumber   useAnimatedNumber: target changes and frames       *)
(* SpecAgentsByDate     one render of the Recharts agentsOverTime          *)
(* SpecRecentActivity   one render of the Recharts activity list           *)
(***************************************************************************)
EXTENDS Integers, Sequences, FiniteSets, TLC

VARIABLES
    variant,          \* which App is running: "tremor" or "recharts"
    lifecycle,        \* "created" (first render done), "mounted", "unmounted"
    interval,         \* TRUE while the setInterval timer is armed
    cycles,           \* the fetchData calls: position and local variables
    stats,            \* useState<DashboardStats | null>
    activity,         \* useState<ActivityItem[]>
    agents,           \* useState<Agent[]>
    jobs,             \* useState<Job[]>
    loading,          \* useState(true)
    error,            \* useState<string | null>
    leaderboardSort,  \* useState<'balance' | 'jobs' | 'reputation'>
    rendered,         \* TRUE once the derived view-models were computed
    agentsOverTime,   \* derived: cumulative agents per day
    rewardBuckets,    \* derived: reward histogram
    topAgents,        \* derived: leaderboard
    jobsByStatus,     \* derived: job count per status
    statusData,       \* derived (Tremor): the status tally as a list
    jobsByType,       \* derived: job count per type
    jobTypeData,      \* derived (Tremor): the six most frequent types
    activityItems,    \* derived (Tremor): the activity feed
    value,            \* useAnimatedNumber: the target passed in
    displayValue,     \* useAnimatedNumber: useState(value)
    previousValue,    \* useAnimatedNumber: previousValue.current
    anim              \* useAnimatedNumber: the effect's closure and its frame

vars == <<variant, lifecycle, interval, cycles, stats, activity, agents, jobs,
          loading, error, leaderboardSort, rendered, agentsOverTime,
          rewardBuckets, topAgents, jobsByStatus, statusData, jobsByType,
          jobTypeData, activityItems, value, displayValue, previousValue,
          anim>>

snapshots == <<stats, activity, agents, jobs>>
tallies == <<jobsByStatus, statusData, jobsByType, jobTypeData>>
hook == <<value, displayValue, previousValue, anim>>
derived == <<rendered, agentsOverTime, rewardBuckets, topAgents, tallies,
             activityItems, hook>>

----------------------------------------------------------------------------
(* Bounds *)

MaxCycles == 2      \* fetchData calls modelled (mount + ticks)

----------------------------------------------------------------------------
(* JavaScript values *)

None == [defined |-> FALSE]
Some(v) == [defined |-> TRUE, val |-> v]

\* a || b for a value that is undefined/null or a non-empty array
OrElse(o, d) == IF o.defined THEN o.val ELSE d

Variants == {"tremor", "recharts"}
Endpoints == {"dashboard", "agents", "jobs"}
SortKeys == {"jobs", "reputation", "balance"}

\* the literal of `throw new Error('Failed to fetch data')`
FailedToFetchData == "Failed to fetch data"
\* message of the TypeError a rejected fetch() carries (browser text)
NetworkErrorMessage == "Failed to fetch"
\* message of the SyntaxError a failing res.json() carries (engine text)
SyntaxErrorMessage == "Unexpected token < in JSON at position 0"

ErrorObject(name, message) == [isError |-> TRUE, name |-> name, message |-> message]

----------------------------------------------------------------------------
(* What the remote API answers to the c-th poll.  The marketplace grows    *)
(* between polls, so every poll sees different data.                       *)

ServerStats(c) ==
    [totalAgents |-> c, totalJobs |-> 2 * c, openJobs |-> c, claimedJobs |-> 0,
     completedJobs |-> c, totalRewardsPaid |-> 10000 * c,
     totalRewardsEscrowed |-> 500 * c]

ServerAgent(i) ==
    [id |-> i, jobs_completed |-> i, reputation |-> 10 - i,
     onChainBalance |-> Some(<<"5">>),
     created_at |-> [valid |-> TRUE, y |-> 2026, m |-> 1, d |-> i, h |-> 0]]

ServerAgents(c) == [i \in 1..c |-> ServerAgent(i)]

ServerJob(i) ==
    [id |-> i, reward |-> 10000 * i, status |-> "open", type |-> Some("code")]

ServerJobs(c) == [i \in 1..(2 * c) |-> ServerJob(i)]

ServerActivityItem(i) ==
    [id |-> i, type |-> "job_posted", timestamp |-> i]

ServerActivity(c) == [i \in 1..c |-> ServerActivityItem(i)]

\* body of GET /api/dashboard: activity may be missing from the object
DashboardBodies(c) ==
    {[stats |-> ServerStats(c), activity |-> a] :
        a \in {None, Some(ServerActivity(c))}}

----------------------------------------------------------------------------
(* fetchData: one record per call *)

NoBody == [parsed |-> FALSE]

\* the derived values before a render computed them, and the animated
\* number at rest on 0
NothingDerived ==
    /\ rendered = FALSE
    /\ agentsOverTime = <<>>
    /\ rewardBuckets = <<>>
    /\ topAgents = <<>>
    /\ jobsByStatus = <<>>
    /\ statusData = <<>>
    /\ jobsByType = <<>>
    /\ jobTypeData = <<>>
    /\ activityItems = <<>>
    /\ value = 0
    /\ displayValue = 0
    /\ previousValue = 0
    /\ anim = [active |-> FALSE, startValue |-> 0, endValue |-> 0, elapsed |-> 0]

IdleCycle ==
    [phase |-> "idle",
     res |-> [ep \in Endpoints |-> "pending"],
     dashData |-> NoBody, agentsData |-> <<>>, jobsData |-> <<>>,
     e |-> None]

Started == Cardinality({c \in 1..MaxCycles : cycles[c].phase # "idle"})

InFlight(c) == cycles[c].phase \in {"fetching", "dashJson", "agentsJson", "jobsJson"}

\* if (loading) ... ; if (error) ... ; return <dashboard>
View ==
    IF loading THEN "loading"
    ELSE IF error.defined /\ error.val # "" THEN "error"
    ELSE "ready"

Init ==
    /\ variant \in Variants
    /\ lifecycle = "created"
    /\ interval = FALSE
    /\ cycles = [c \in 1..MaxCycles |-> IdleCycle]
    /\ stats = None
    /\ activity = <<>>
    /\ agents = <<>>
    /\ jobs = <<>>
    /\ loading = TRUE
    /\ error = None
    /\ leaderboardSort = "jobs"
    /\ NothingDerived

\* the body of fetchData up to its first await: three fetch() calls
StartCycle(c) == [cycles EXCEPT ![c].phase = "fetching"]

\* useEffect(() => { fetchData(); const interval = setInterval(...) }, [])
Mount ==
    /\ lifecycle = "created"
    /\ lifecycle' = "mounted"
    /\ cycles' = StartCycle(1)
    /\ interval' = TRUE
    /\ UNCHANGED <<variant, snapshots, loading, error, leaderboardSort, derived>>

\* a timer callback that shows the loading view again while it fetches
TickShowingLoading ==
    /\ interval
    /\ Started < MaxCycles
    /\ cycles' = StartCycle(Started + 1)
    /\ loading' = TRUE
    /\ UNCHANGED <<variant, lifecycle, interval, snapshots, error,
                   leaderboardSort, derived>>

\* the timer fires: fetchData()
Tick ==
    /\ interval
    /\ Started < MaxCycles
    /\ cycles' = StartCycle(Started + 1)
    /\ UNCHANGED <<variant, lifecycle, interval, snapshots, loading, error,
                   leaderboardSort, derived>>

\* a cleanup that forgets clearInterval
TeardownKeepingTimer ==
    /\ lifecycle = "mounted"
    /\ lifecycle' = "unmounted"
    /\ UNCHANGED <<variant, interval, cycles, snapshots, loading, error,
                   leaderboardSort, derived>>

\* return () => clearInterval(interval)
Teardown ==
    /\ lifecycle = "mounted"
    /\ lifecycle' = "unmounted"
    /\ interval' = FALSE
    /\ UNCHANGED <<variant, cycles, snapshots, loading, error, leaderboardSort,
                   derived>>

\* a catch handler that reports every failure with the generic text
CaughtMessageGeneric(e) == FailedToFetchData

\* e instanceof Error ? e.message : 'Unknown error'
CaughtMessage(e) == IF e.isError THEN e.message ELSE "Unknown error"

\* a catch handler that also empties the lists
FailClearingData(c, res, exc) ==
    /\ cycles' = [cycles EXCEPT ![c].phase = "failed", ![c].res = res,
                                ![c].e = Some(exc)]
    /\ IF lifecycle = "mounted"
       THEN /\ error' = Some(CaughtMessage(exc))
            /\ loading' = FALSE
            /\ agents' = <<>>
            /\ jobs' = <<>>
       ELSE UNCHANGED <<error, loading, agents, jobs>>
    /\ UNCHANGED <<variant, lifecycle, interval, stats, activity,
                   leaderboardSort, derived>>

\* a catch handler that retries at once instead of waiting for the timer
FailRetrying(c, res, exc) ==
    LET failed == [cycles EXCEPT ![c].phase = "failed", ![c].res = res,
                                 ![c].e = Some(exc)]
    IN /\ cycles' = IF lifecycle = "mounted" /\ Started < MaxCycles
                    THEN [failed EXCEPT ![Started + 1].phase = "fetching"]
                    ELSE failed
       /\ IF lifecycle = "mounted"
          THEN /\ error' = Some(CaughtMessage(exc))
               /\ loading' = FALSE
          ELSE UNCHANGED <<error, loading>>
       /\ UNCHANGED <<variant, lifecycle, interval, snapshots, leaderboardSort,
                      derived>>

\* catch (e) { setError(...); setLoading(false) }
\* res: the settlement of the three fetches as this call saw it.
\* State updates of an unmounted component are dropped by React.
Fail(c, res, exc) ==
    /\ cycles' = [cycles EXCEPT ![c].phase = "failed", ![c].res = res,
                                ![c].e = Some(exc)]
    /\ IF lifecycle = "mounted"
       THEN /\ error' = Some(CaughtMessage(exc))
            /\ loading' = FALSE
       ELSE UNCHANGED <<error, loading>>
    /\ UNCHANGED <<variant, lifecycle, interval, snapshots, leaderboardSort,
                   derived>>

\* setActivity(dashData.activity) without the `|| []` default: a missing
\* list leaves the previous one
AppliedSnapshotNoDefault(dashData, agentsData, jobsData) ==
    [stats |-> Some(dashData.stats),
     activity |-> OrElse(dashData.activity, activity),
     agents |-> agentsData,
     jobs |-> jobsData,
     loading |-> FALSE]

\* the success path without setJobs
AppliedSnapshotStaleJobs(dashData, agentsData, jobsData) ==
    [stats |-> Some(dashData.stats),
     activity |-> OrElse(dashData.activity, <<>>),
     agents |-> agentsData,
     jobs |-> jobs,
     loading |-> FALSE]

\* the values the five setState calls after the last await store
AppliedSnapshot(dashData, agentsData, jobsData) ==
    [stats |-> Some(dashData.stats),
     activity |-> OrElse(dashData.activity, <<>>),
     agents |-> agentsData,
     jobs |-> jobsData,
     loading |-> FALSE]

\* How the render root commits the state updates made in one synchronous
\* run: together, in one render (the root is created outside the modelled
\* sources; "fetch results are applied synchronously within a single
\* update").
CommitBatch(new) ==
    /\ stats' = new.stats
    /\ activity' = new.activity
    /\ agents' = new.agents
    /\ jobs' = new.jobs
    /\ loading' = new.loading

\* a success path that also calls setError(null)
SucceedClearingError(c, jobsData) ==
    LET cy == cycles[c]
        new == AppliedSnapshot(cy.dashData, cy.agentsData, jobsData)
    IN /\ cycles' = [cycles EXCEPT ![c].phase = "succeeded",
                                   ![c].jobsData = jobsData]
       /\ IF lifecycle = "mounted"
          THEN CommitBatch(new) /\ error' = None
          ELSE UNCHANGED <<snapshots, loading, error>>
       /\ UNCHANGED <<variant, lifecycle, interval, leaderboardSort, derived>>

\* a success path whose state updates reach the component after teardown
SucceedAfterUnmount(c, jobsData) ==
    LET cy == cycles[c]
        new == AppliedSnapshot(cy.dashData, cy.agentsData, jobsData)
    IN /\ cycles' = [cycles EXCEPT ![c].phase = "succeeded",
                                   ![c].jobsData = jobsData]
       /\ CommitBatch(new)
       /\ UNCHANGED <<variant, lifecycle, interval, error, leaderboardSort,
                      derived>>

\* setStats ... setLoading(false), run after the last await.
\* State updates of an unmounted component are dropped by React.
Succeed(c, jobsData) ==
    LET cy == cycles[c]
        new == AppliedSnapshot(cy.dashData, cy.agentsData, jobsData)
    IN /\ cycles' = [cycles EXCEPT ![c].phase = "succeeded",
                                   ![c].jobsData = jobsData]
       /\ IF lifecycle = "mounted"
          THEN CommitBatch(new)
          ELSE UNCHANGED <<snapshots, loading>>
       /\ UNCHANGED <<variant, lifecycle, interval, error, leaderboardSort,
                      derived>>

\* if (!dashRes.ok || !agentsRes.ok || !jobsRes.ok)
AnyNotOk(res) == \E ep \in Endpoints : res[ep] = "notok"

\* one fetch() resolves with a response; Promise.all resolves with the last
FetchResolve(c, ep, ok) ==
    /\ cycles[c].phase = "fetching"
    /\ cycles[c].res[ep] = "pending"
    /\ LET res == [cycles[c].res EXCEPT ![ep] = IF ok THEN "ok" ELSE "notok"]
       IN IF \E other \in Endpoints : res[other] = "pending"
          THEN /\ cycles' = [cycles EXCEPT ![c].res = res]
               /\ UNCHANGED <<variant, lifecycle, interval, snapshots, loading,
                              error, leaderboardSort, derived>>
          ELSE IF AnyNotOk(res)
          THEN Fail(c, res, ErrorObject("Error", FailedToFetchData))
          ELSE /\ cycles' = [cycles EXCEPT ![c].res = res, ![c].phase = "dashJson"]
               /\ UNCHANGED <<variant, lifecycle, interval, snapshots, loading,
                              error, leaderboardSort, derived>>

\* one fetch() rejects: Promise.all rejects at once
FetchReject(c, ep) ==
    /\ cycles[c].phase = "fetching"
    /\ cycles[c].res[ep] = "pending"
    /\ Fail(c, [cycles[c].res EXCEPT ![ep] = "rejected"],
            ErrorObject("TypeError", NetworkErrorMessage))

\* await dashRes.json() / agentsRes.json() / jobsRes.json() resolves
JsonResolve(c) ==
    \/ /\ cycles[c].phase = "dashJson"
       /\ \E body \in DashboardBodies(c) :
            cycles' = [cycles EXCEPT ![c].phase = "agentsJson",
                                     ![c].dashData = body]
       /\ UNCHANGED <<variant, lifecycle, interval, snapshots, loading, error,
                      leaderboardSort, derived>>
    \/ /\ cycles[c].phase = "agentsJson"
       /\ cycles' = [cycles EXCEPT ![c].phase = "jobsJson",
                                   ![c].agentsData = ServerAgents(c)]
       /\ UNCHANGED <<variant, lifecycle, interval, snapshots, loading, error,
                      leaderboardSort, derived>>
    \/ /\ cycles[c].phase = "jobsJson"
       /\ Succeed(c, ServerJobs(c))

\* a body is not JSON: res.json() rejects
JsonReject(c) ==
    /\ cycles[c].phase \in {"dashJson", "agentsJson", "jobsJson"}
    /\ Fail(c, cycles[c].res, ErrorObject("SyntaxError", SyntaxErrorMessage))

\* a click handler that also refreshes the data
SelectSortRefetching(key) ==
    /\ lifecycle = "mounted"
    /\ View = "ready"
    /\ leaderboardSort' = key
    /\ cycles' = IF Started < MaxCycles THEN StartCycle(Started + 1) ELSE cycles
    /\ UNCHANGED <<variant, lifecycle, interval, snapshots, loading, error,
                   derived>>

\* onClick={() => setLeaderboardSort(item.key)}
SelectSort(key) ==
    /\ lifecycle = "mounted"
    /\ View = "ready"
    /\ leaderboardSort' = key
    /\ UNCHANGED <<variant, lifecycle, interval, cycles, snapshots, loading,
                   error, derived>>

Next ==
    \/ Mount
    \/ Tick
    \/ Teardown
    \/ \E c \in 1..MaxCycles, ep \in Endpoints, ok \in BOOLEAN : FetchResolve(c, ep, ok)
    \/ \E c \in 1..MaxCycles, ep \in Endpoints : FetchReject(c, ep)
    \/ \E c \in 1..MaxCycles : JsonResolve(c)
    \/ \E c \in 1..MaxCycles : JsonReject(c)
    \/ \E key \in SortKeys : SelectSort(key)

Spec == Init /\ [][Next]_vars

----------------------------------------------------------------------------
(* Poll loop: properties *)

Cycles == 1..MaxCycles

\* the step in which fetchData call c runs its five setState calls
Succeeds(c) == cycles[c].phase = "jobsJson" /\ cycles'[c].phase = "succeeded"

\* the step in which fetchData call c enters its catch block
Fails(c) == InFlight(c) /\ cycles'[c].phase = "failed"

\* the four snapshots are the data the API answered to poll c
HoldsCycleData(c) ==
    /\ stats = Some(ServerStats(c))
    /\ activity = OrElse(cycles[c].dashData.activity, <<>>)
    /\ activity \in {<<>>, ServerActivity(c)}
    /\ agents = ServerAgents(c)
    /\ jobs = ServerJobs(c)

HoldsInitialData ==
    /\ stats = None
    /\ activity = <<>>
    /\ agents = <<>>
    /\ jobs = <<>>

ErrorIsSet == error.defined /\ error.val # ""

\* C1: when the three fetches of a poll resolve OK and their bodies parse,
\* the stats, activity, agents and jobs snapshots become exactly that poll's
\* data (activity the empty list when the body has none) and loading
\* becomes false.
C1_SuccessReplacesSnapshots ==
    [][\A c \in Cycles :
        (lifecycle = "mounted" /\ Succeeds(c)) =>
            /\ \A ep \in Endpoints : cycles'[c].res[ep] = "ok"
            /\ HoldsCycleData(c)'
            /\ (~cycles'[c].dashData.activity.defined => activity' = <<>>)
            /\ loading' = FALSE]_vars

\* C1 witness: the second poll succeeded with a body that has no activity,
\* after the first poll had stored a non-empty activity list.
C1_Witness ==
    /\ lifecycle = "mounted"
    /\ cycles[1].phase = "succeeded"
    /\ cycles[1].dashData.activity.defined
    /\ cycles[2].phase = "succeeded"
    /\ ~cycles[2].dashData.activity.defined
    /\ stats = Some(ServerStats(2))
    /\ activity = <<>>
    /\ ~loading

\* C2: when a fetch of a poll rejects, answers a non-OK status or has a body
\* that does not parse, the error is set and that poll changes none of the
\* four snapshots; any step changes either all four snapshots (to the data
\* of one poll) or none of them.
C2_FailureChangesNoSnapshot ==
    [][/\ \A c \in Cycles :
            (lifecycle = "mounted" /\ Fails(c)) =>
                /\ ErrorIsSet'
                /\ snapshots' = snapshots
       /\ \/ snapshots' = snapshots
          \/ \E c \in Cycles : Succeeds(c) /\ HoldsCycleData(c)']_vars

\* C2 witness: the second poll failed on a malformed body after its
\* dashboard body had been parsed, while the data of the first poll is held.
C2_Witness ==
    /\ lifecycle = "mounted"
    /\ cycles[1].phase = "succeeded"
    /\ cycles[2].phase = "failed"
    /\ cycles[2].e.val.name = "SyntaxError"
    /\ cycles[2].dashData # NoBody
    /\ HoldsCycleData(1)
    /\ ErrorIsSet

\* C3: once a poll has failed the error stays set in every later state and
\* the view is the error view, whatever later polls do.
C3_ErrorIsTerminal ==
    /\ []((lifecycle = "mounted" /\ \E c \in Cycles : cycles[c].phase = "failed")
            => (ErrorIsSet /\ View = "error"))
    /\ [][ErrorIsSet => (ErrorIsSet' /\ View' = "error")]_vars

\* C3 witness: the first poll failed, the second succeeded and stored its
\* stats, and the view is still the error view.
C3_Witness ==
    /\ lifecycle = "mounted"
    /\ cycles[1].phase = "failed"
    /\ cycles[2].phase = "succeeded"
    /\ HoldsCycleData(2)
    /\ View = "error"

\* C4 as stated: every failure of a poll stores the same message,
\* "Failed to fetch data".
C4_AlwaysGenericMessage == error.defined => error.val = FailedToFetchData

\* C4 amended: a non-OK status stores "Failed to fetch data"; a rejected
\* fetch stores the message of the rejection and a malformed body the
\* message of the parse error, so the text depends on the kind of failure.
C4_MessageFollowsFailure ==
    [][\A c \in Cycles :
        (lifecycle = "mounted" /\ Fails(c)) =>
            LET res == cycles'[c].res
                rejected == \E ep \in Endpoints : res[ep] = "rejected"
            IN /\ error' = Some(cycles'[c].e.val.message)
               /\ (cycles[c].phase = "fetching" /\ ~rejected)
                     => (AnyNotOk(res) /\ error'.val = FailedToFetchData)
               /\ rejected => error'.val = NetworkErrorMessage
               /\ cycles[c].phase # "fetching" => error'.val = SyntaxErrorMessage]_vars

\* C4 witness: one poll failed on a non-OK status and the other on a
\* rejected fetch, whose message is the one stored.
C4_Witness ==
    /\ lifecycle = "mounted"
    /\ cycles[1].phase = "failed"
    /\ AnyNotOk(cycles[1].res)
    /\ cycles[1].e.val.message = FailedToFetchData
    /\ cycles[2].phase = "failed"
    /\ \E ep \in Endpoints : cycles[2].res[ep] = "rejected"
    /\ error = Some(NetworkErrorMessage)

\* C5: in every state the four snapshots are the data of one and the same
\* poll, or all four are still the initial empty values.
C5_SnapshotsOfOneCycle ==
    \/ HoldsInitialData
    \/ \E c \in Cycles : cycles[c].phase = "succeeded" /\ HoldsCycleData(c)

\* C5 witness: two polls succeeded and the second replaced the first.
C5_Witness ==
    /\ cycles[1].phase = "succeeded"
    /\ cycles[2].phase = "succeeded"
    /\ HoldsCycleData(2)
    /\ ~HoldsCycleData(1)

\* C6: a poll is started on mount and one by each timer tick; after
\* teardown the timer is cancelled and no poll is ever started.
C6_NoPollAfterTeardown ==
    /\ [](lifecycle # "created" => cycles[1].phase # "idle")
    /\ [](interval => lifecycle = "mounted")
    /\ [][/\ lifecycle = "unmounted" => Started' = Started
          /\ Started' # Started =>
                /\ Started' = Started + 1
                /\ lifecycle = "created" \/ interval]_vars

\* C6 witness: torn down while a poll is in flight and a further tick was
\* still to come.
C6_Witness ==
    /\ lifecycle = "unmounted"
    /\ ~interval
    /\ Started >= 1
    /\ \E c \in Cycles : cycles[c].phase = "idle"
    /\ \E c \in Cycles : InFlight(c)

----------------------------------------------------------------------------
(* Derived view-models: shared helpers *)

MaxAgents == 4      \* agents in an input of agentsOverTime
MaxJobs == 3        \* jobs in an input of rewardBuckets

\* all sequences over S of length 0..n
SeqsUpTo(S, n) == UNION {[1..k -> S] : k \in 0..n}

Min(a, b) == IF a < b THEN a ELSE b

\* list.slice(0, n)
Slice(list, n) == SubSeq(list, 1, Min(n, Len(list)))

\* Array.prototype.sort with a consistent comparator: the stable ordering.
\* cf[j][i] is the comparator's result for the elements at indices j and i;
\* j comes before i when it compares lower, or equal with j first.
\* (rank is bound through a singleton set so that it is computed once.)
Sorted(list, cf) ==
    LET n == Len(list)
        Ranks == [i \in 1..n |->
                    1 + Cardinality({j \in 1..n :
                                       cf[j][i] < 0 \/ (cf[j][i] = 0 /\ j < i)})]
    IN CHOOSE out \in {[k \in 1..n |-> list[CHOOSE i \in 1..n : rank[i] = k]] :
                          rank \in {Ranks}} : TRUE

\* tickFormatter(label, max); the ellipsis character is written "..."
tickFormatter(label, max) ==
    IF label = "" THEN ""
    ELSE IF Len(label) > max THEN SubSeq(label, 1, max) \o "..."
    ELSE label

\* the state in which the dashboard renders a given input
RenderState ==
    /\ lifecycle = "mounted"
    /\ interval = TRUE
    /\ cycles = [c \in 1..MaxCycles |-> IdleCycle]
    /\ stats = None
    /\ activity = <<>>
    /\ loading = FALSE
    /\ error = None
    /\ NothingDerived

----------------------------------------------------------------------------
(* agentsOverTime (Tremor variant) *)

\* created_at after `new Date(...)`: an instant (UTC date and hour; the
\* browser's time zone is taken to be UTC) or an invalid date
InvalidDate == [valid |-> FALSE, y |-> 0, m |-> 0, d |-> 0, h |-> 0]
Instant(y, m, d, h) == [valid |-> TRUE, y |-> y, m |-> m, d |-> d, h |-> h]

Timestamps ==
    {InvalidDate,
     Instant(2025, 1, 1, 9), Instant(2025, 12, 31, 23),
     Instant(2026, 1, 1, 0), Instant(2026, 1, 1, 12),
     Instant(2026, 1, 2, 0), Instant(2026, 2, 1, 0)}

AgentCreatedAt(i, t) ==
    [id |-> i, jobs_completed |-> 0, reputation |-> 0,
     onChainBalance |-> Some(<<"0">>), created_at |-> t]

AgentsOverTimeInputs ==
    {[i \in DOMAIN ts |-> AgentCreatedAt(i, ts[i])] : ts \in SeqsUpTo(Timestamps, MaxAgents)}

\* Number.isNaN(createdAt.getTime())
IsInvalidDate(t) == ~t.valid

\* createdAt.toISOString().slice(0, 10): year, month, day of 'YYYY-MM-DD'
IsoDay(t) == <<t.y, t.m, t.d>>

\* a comparator that leaves the keys in their order of first appearance
LocaleCompareUnordered(a, b) == 0

\* a.localeCompare(b) on two 'YYYY-MM-DD' keys
LocaleCompare(a, b) ==
    IF a = b THEN 0
    ELSE IF \/ a[1] < b[1]
            \/ (a[1] = b[1] /\ a[2] < b[2])
            \/ (a[1] = b[1] /\ a[2] = b[2] /\ a[3] < b[3])
         THEN -1 ELSE 1

MonthNames == <<"Jan", "Feb", "Mar", "Apr", "May", "Jun", "Jul", "Aug", "Sep",
                "Oct", "Nov", "Dec">>

\* toLocaleDateString('en-US', { month: 'short', day: 'numeric' })
MonthDayLabel(t) ==
    IF t.valid THEN MonthNames[t.m] \o " " \o ToString(t.d) ELSE "Invalid Date"

\* the Map `buckets` after agents[1..n] were visited, in insertion order
RECURSIVE BucketsAfter(_, _)
BucketsAfter(list, n) ==
    IF n = 0 THEN <<>>
    ELSE LET prev == BucketsAfter(list, n - 1)
             t == list[n].created_at
         IN IF IsInvalidDate(t) THEN prev
            ELSE IF \E k \in 1..Len(prev) : prev[k].key = IsoDay(t)
            THEN [k \in 1..Len(prev) |->
                    IF prev[k].key = IsoDay(t)
                    THEN [prev[k] EXCEPT !.count = @ + 1]
                    ELSE prev[k]]
            ELSE Append(prev, [key |-> IsoDay(t),
                               label |-> tickFormatter(MonthDayLabel(t), 9),
                               count |-> 1])

RECURSIVE SumCounts(_, _)
SumCounts(entries, n) ==
    IF n = 0 THEN 0 ELSE SumCounts(entries, n - 1) + entries[n].count

\* a running total that is not carried over
CumulativeNotCarried(sorted, i) == sorted[i].count

\* `cumulative` after the i-th entry was mapped: cumulative += value.count
CumulativeAt(sorted, i) == SumCounts(sorted, i)

\* const agentsOverTime = useMemo(...)
AgentsOverTime(list) ==
    LET buckets == BucketsAfter(list, Len(list))
        sorted == Sorted(buckets,
                         [j \in 1..Len(buckets) |-> [i \in 1..Len(buckets) |->
                             LocaleCompare(buckets[j].key, buckets[i].key)]])
    IN [i \in 1..Len(sorted) |->
          [date |-> sorted[i].label,
           count |-> sorted[i].count,
           cumulative |-> CumulativeAt(sorted, i),
           key |-> sorted[i].key]]

InitAgentsOverTime ==
    /\ variant = "tremor"
    /\ agents \in AgentsOverTimeInputs
    /\ jobs = <<>>
    /\ leaderboardSort = "jobs"
    /\ RenderState

RenderAgentsOverTime ==
    /\ ~rendered
    /\ rendered' = TRUE
    /\ agentsOverTime' = AgentsOverTime(agents)
    /\ UNCHANGED <<variant, lifecycle, interval, cycles, snapshots, loading,
                   error, leaderboardSort, rewardBuckets, topAgents, tallies,
                   activityItems, hook>>

SpecAgentsOverTime == InitAgentsOverTime /\ [][RenderAgentsOverTime]_vars

ValidAgents == {i \in 1..Len(agents) : agents[i].created_at.valid}

\* C7: the cumulative values of agentsOverTime never decrease, each is the
\* sum of the per-day counts up to and including its entry, and the last
\* one is the number of agents whose created_at parses.
C7_CumulativeCounts ==
    rendered =>
        LET out == agentsOverTime
            n == Len(out)
        IN /\ \A i \in 1..n : out[i].count >= 1
           /\ \A i \in 1..n :
                out[i].cumulative = (IF i = 1 THEN 0 ELSE out[i - 1].cumulative) + out[i].count
           /\ \A i \in 1..n, j \in 1..n : i <= j => out[i].cumulative <= out[j].cumulative
           /\ (n = 0) = (ValidAgents = {})
           /\ n > 0 => out[n].cumulative = Cardinality(ValidAgents)

\* C7 witness: four agents, one with an unparseable timestamp, two created
\* on the same day and one on another day.
C7_Witness ==
    /\ rendered
    /\ Len(agents) = 4
    /\ Cardinality(ValidAgents) = 3
    /\ Len(agentsOverTime) = 2
    /\ agentsOverTime[2].cumulative = 3
    /\ agentsOverTime[1].count = 2

\* a day key as a number that grows with the calendar
DayNumber(key) == key[1] * 10000 + key[2] * 100 + key[3]

AgentsCreatedOn(key) ==
    {i \in ValidAgents : <<agents[i].created_at.y, agents[i].created_at.m,
                            agents[i].created_at.d>> = key}

\* C20 (Tremor): agentsOverTime has exactly one entry for each calendar
\* day on which an agent with a parseable created_at was created, the
\* entries are in strictly increasing order of day, the count of an entry
\* is the number of such agents created on its day, and the sequence is
\* empty when there is no such agent.
C20_OneEntryPerDay ==
    rendered =>
        LET out == agentsOverTime
            days == {key \in {<<t.y, t.m, t.d>> : t \in Timestamps} :
                        AgentsCreatedOn(key) # {}}
        IN /\ {out[i].key : i \in DOMAIN out} = days
           /\ Len(out) = Cardinality(days)
           /\ \A i, j \in DOMAIN out :
                 i < j => DayNumber(out[i].key) < DayNumber(out[j].key)
           /\ \A i \in DOMAIN out :
                 out[i].count = Cardinality(AgentsCreatedOn(out[i].key))
           /\ ValidAgents = {} => out = <<>>

\* agents listed out of chronological order: one on 2026-01-01, one on
\* 2025-12-31, another on 2026-01-01 and one with an unparseable
\* timestamp give the entries 2025-12-31 (1) and 2026-01-01 (2)
C20_Witness ==
    /\ rendered
    /\ Len(agents) = 4
    /\ agents[1].created_at = Instant(2026, 1, 1, 12)
    /\ agents[2].created_at = Instant(2025, 12, 31, 23)
    /\ agents[3].created_at = Instant(2026, 1, 1, 0)
    /\ agents[4].created_at = InvalidDate
    /\ Len(agentsOverTime) = 2
    /\ agentsOverTime[1].key = <<2025, 12, 31>>
    /\ agentsOverTime[1].count = 1
    /\ agentsOverTime[2].key = <<2026, 1, 1>>
    /\ agentsOverTime[2].count = 2

----------------------------------------------------------------------------
(* rewardBuckets (both variants) *)

\* rewards on and next to every threshold
Rewards == {0, 1, 10000, 10001, 50000, 50001, 100000, 100001, 500000, 500001}

JobWithReward(i, r) ==
    [id |-> i, reward |-> r, status |-> "open", type |-> Some("code")]

RewardBucketsInputs ==
    {[i \in DOMAIN rs |-> JobWithReward(i, rs[i])] : rs \in SeqsUpTo(Rewards, MaxJobs)}

\* the `range` literals of the buckets array
BucketRanges == <<"0", "1-10K", "10K-50K", "50K-100K", "100K-500K", "500K+">>

\* thresholds compared with < instead of <=
BucketOfExclusive(reward) ==
    IF reward = 0 THEN 1
    ELSE IF reward < 10000 THEN 2
    ELSE IF reward < 50000 THEN 3
    ELSE IF reward < 100000 THEN 4
    ELSE IF reward < 500000 THEN 5
    ELSE 6

\* the if / else-if chain of jobs.forEach: index (from 1) of the bucket
BucketOf(reward) ==
    IF reward = 0 THEN 1
    ELSE IF reward <= 10000 THEN 2
    ELSE IF reward <= 50000 THEN 3
    ELSE IF reward <= 100000 THEN 4
    ELSE IF reward <= 500000 THEN 5
    ELSE 6

\* `count` holds the bucket's number of jobs (named Jobs in the Tremor
\* variant, whose labels go through tickFormatter(range, 10))
RewardBuckets(v, list) ==
    [b \in 1..Len(BucketRanges) |->
        [range |-> IF v = "tremor" THEN tickFormatter(BucketRanges[b], 10)
                   ELSE BucketRanges[b],
         count |-> Cardinality({i \in 1..Len(list) : BucketOf(list[i].reward) = b})]]

InitRewardBuckets ==
    /\ variant \in Variants
    /\ agents = <<>>
    /\ jobs \in RewardBucketsInputs
    /\ leaderboardSort = "jobs"
    /\ RenderState

RenderRewardBuckets ==
    /\ ~rendered
    /\ rendered' = TRUE
    /\ rewardBuckets' = RewardBuckets(variant, jobs)
    /\ UNCHANGED <<variant, lifecycle, interval, cycles, snapshots, loading,
                   error, leaderboardSort, agentsOverTime, topAgents, tallies,
                   activityItems, hook>>

SpecRewardBuckets == InitRewardBuckets /\ [][RenderRewardBuckets]_vars

\* the inclusive upper bounds of the first five buckets, as the claim
\* states them
UpperBounds == <<0, 10000, 50000, 100000, 500000>>

\* the bucket whose range (UpperBounds[b-1], UpperBounds[b]] holds r
RangeOf(r) == 1 + Cardinality({k \in 1..Len(UpperBounds) : r > UpperBounds[k]})

RECURSIVE SumBuckets(_, _)
SumBuckets(buckets, n) ==
    IF n = 0 THEN 0 ELSE SumBuckets(buckets, n - 1) + buckets[n].count

\* C8: the histogram has the six buckets 0, 1-10K, 10K-50K, 50K-100K,
\* 100K-500K, 500K+ in this order, also when empty; each job is counted in
\* the one bucket its reward selects by the inclusive upper bounds, so the
\* counts add up to the number of jobs.
C8_RewardHistogram ==
    rendered =>
        /\ Len(rewardBuckets) = 6
        /\ [b \in 1..6 |-> rewardBuckets[b].range] =
              <<"0", "1-10K", "10K-50K", "50K-100K", "100K-500K", "500K+">>
        /\ \A b \in 1..6 :
              rewardBuckets[b].count =
                Cardinality({i \in 1..Len(jobs) : RangeOf(jobs[i].reward) = b})
        /\ SumBuckets(rewardBuckets, 6) = Len(jobs)

\* C8 witness: rewards 10000 and 10001 fall in neighbouring buckets and
\* the other four buckets are rendered empty.
C8_Witness ==
    /\ rendered
    /\ Len(jobs) = 2
    /\ jobs[1].reward = 10000
    /\ jobs[2].reward = 10001
    /\ rewardBuckets[2].range = "1-10K" /\ rewardBuckets[2].count = 1
    /\ rewardBuckets[3].range = "10K-50K" /\ rewardBuckets[3].count = 1
    /\ rewardBuckets[1].count = 0 /\ rewardBuckets[6].count = 0

----------------------------------------------------------------------------
(* topAgents (both variants) *)

MaxBoardAgents == 2   \* agents in a leaderboard input with arbitrary balances
MaxOverflow == 1      \* agents beyond the cut in a long leaderboard input

\* .slice(0, 10)
TopN == 10

\* a JavaScript number: NaN or an integer
NaN == [nan |-> TRUE, val |-> 0]
Num(n) == [nan |-> FALSE, val |-> n]

\* a - b
Minus(a, b) == IF a.nan \/ b.nan THEN NaN ELSE Num(a.val - b.val)

\* strings are sequences of one-character strings
DigitChars == <<"0", "1", "2", "3", "4", "5", "6", "7", "8", "9">>
IsDigit(ch) == \E k \in 1..10 : DigitChars[k] = ch
DigitValue(ch) == (CHOOSE k \in 1..10 : DigitChars[k] = ch) - 1

\* number of leading digits of chars from index i on
RECURSIVE DigitRun(_, _)
DigitRun(chars, i) ==
    IF i > Len(chars) \/ ~IsDigit(chars[i]) THEN 0 ELSE 1 + DigitRun(chars, i + 1)

\* value of the digits chars[i..j]
RECURSIVE DigitsValue(_, _, _)
DigitsValue(chars, i, j) ==
    IF j < i THEN 0 ELSE 10 * DigitsValue(chars, i, j - 1) + DigitValue(chars[j])

\* parseInt(s, 10) (and parseInt(s) for a string without 0x prefix): an
\* optional sign, then the longest run of digits; NaN when there is none
ParseInt(chars) ==
    LET signed == Len(chars) > 0 /\ chars[1] \in {"-", "+"}
        first == IF signed THEN 2 ELSE 1
        run == DigitRun(chars, first)
        magnitude == DigitsValue(chars, first, first + run - 1)
    IN IF run = 0 THEN NaN
       ELSE IF signed /\ chars[1] = "-" THEN Num(0 - magnitude)
       ELSE Num(magnitude)

\* a.onChainBalance || '0'
BalanceOrZero(balance) ==
    IF balance.defined /\ balance.val # <<>> THEN balance.val ELSE <<"0">>

\* the comparator passed to sort
Comparator(a, b, key) ==
    IF key = "jobs" THEN Num(b.jobs_completed - a.jobs_completed)
    ELSE IF key = "reputation" THEN Num(b.reputation - a.reputation)
    ELSE LET balA == ParseInt(BalanceOrZero(a.onChainBalance))
             balB == ParseInt(BalanceOrZero(b.onChainBalance))
         IN Minus(balB, balA)

\* SortCompare of Array.prototype.sort: a NaN result counts as 0
SortCompare(a, b, key) ==
    LET v == Comparator(a, b, key) IN IF v.nan THEN 0 ELSE v.val

\* SortCompare for every pair of indices of the list
CompareTable(list, key) ==
    [i \in 1..Len(list) |-> [j \in 1..Len(list) |-> SortCompare(list[i], list[j], key)]]

\* the fields of an agent the comparator reads
Ranked(a) == <<a.jobs_completed, a.reputation, a.onChainBalance>>

\* the comparator is a consistent comparison function for the elements
\* (cf: their CompareTable).  Elements with equal Ranked fields compare
\* alike, so the conditions are checked on one index per distinct value.
ConsistentComparator(list, cf) ==
    LET I == {i \in 1..Len(list) :
                \A j \in 1..(i - 1) : Ranked(list[j]) # Ranked(list[i])}
    IN /\ \A i \in I : cf[i][i] = 0
       /\ \A i \in I, j \in I :
            /\ (cf[i][j] = 0) = (cf[j][i] = 0)
            /\ (cf[i][j] < 0) = (cf[j][i] > 0)
       /\ \A i \in I, j \in I, k \in I :
            /\ (cf[i][j] = 0 /\ cf[j][k] = 0) => cf[i][k] = 0
            /\ (cf[i][j] < 0 /\ cf[j][k] < 0) => cf[i][k] < 0
            /\ (cf[i][j] > 0 /\ cf[j][k] > 0) => cf[i][k] > 0

Reorderings(list) ==
    LET I == 1..Len(list)
    IN {[k \in I |-> list[p[k]]] :
          p \in {q \in [I -> I] : \A i \in I, j \in I : q[i] = q[j] => i = j}}

\* [...agents].sort(comparator): the stable ordering when the comparator
\* is consistent, otherwise an order the engine is free to choose
SortOutcomes(list, key) ==
    UNION {IF ConsistentComparator(list, cf) THEN {Sorted(list, cf)}
           ELSE Reorderings(list) :
             cf \in {CompareTable(list, key)}}

\* const topAgents = [...agents].sort(...).slice(0, 10)
TopAgents(list, key) == {Slice(sorted, TopN) : sorted \in SortOutcomes(list, key)}

Balances ==
    {None, Some(<<>>), Some(<<"0">>), Some(<<"5">>), Some(<<"1", "2">>),
     Some(<<"a", "b", "c">>)}

BoardAgent(i, v) ==
    [id |-> i, jobs_completed |-> v.jobs_completed, reputation |-> v.reputation,
     onChainBalance |-> v.onChainBalance, created_at |-> Instant(2026, 1, 1, 0)]

\* agents whose order by jobs differs from their order by reputation
BoardValues ==
    {[jobs_completed |-> jr[1], reputation |-> jr[2], onChainBalance |-> bal] :
        jr \in {<<1, 4>>, <<2, 3>>}, bal \in Balances}

LongBoardValues ==
    {[jobs_completed |-> 1, reputation |-> 4, onChainBalance |-> Some(<<"1", "2">>)],
     [jobs_completed |-> 2, reputation |-> 3, onChainBalance |-> Some(<<"5">>)]}

TopAgentsInputs ==
    {[i \in DOMAIN vs |-> BoardAgent(i, vs[i])] :
        vs \in SeqsUpTo(BoardValues, MaxBoardAgents)
              \cup UNION {[1..n -> LongBoardValues] : n \in TopN..(TopN + MaxOverflow)}}

InitTopAgents ==
    /\ variant \in Variants
    /\ agents \in TopAgentsInputs
    /\ jobs = <<>>
    /\ leaderboardSort \in SortKeys
    /\ RenderState

RenderTopAgents ==
    /\ ~rendered
    /\ rendered' = TRUE
    /\ topAgents' \in TopAgents(agents, leaderboardSort)
    /\ UNCHANGED <<variant, lifecycle, interval, cycles, snapshots, loading,
                   error, leaderboardSort, agentsOverTime, rewardBuckets, tallies,
                   activityItems, hook>>

SpecTopAgents == InitTopAgents /\ [][RenderTopAgents]_vars

\* the balance is a decimal integer
IsNumeric(balance) ==
    /\ balance.defined
    /\ balance.val # <<>>
    /\ \A k \in 1..Len(balance.val) : IsDigit(balance.val[k])

\* the key an agent is ranked by according to the specification: a missing,
\* empty or non-numeric balance counts as zero
RankKey(a, key) ==
    IF key = "jobs" THEN a.jobs_completed
    ELSE IF key = "reputation" THEN a.reputation
    ELSE IF IsNumeric(a.onChainBalance)
         THEN DigitsValue(a.onChainBalance.val, 1, Len(a.onChainBalance.val))
         ELSE 0

\* C9: topAgents holds min(10, number of agents) agents of the snapshot,
\* in descending order of the selected key (jobs_completed, reputation, or
\* the integer-parsed onChainBalance), and no agent left out ranks strictly
\* higher than one that is included.
C9_LeaderboardRanked ==
    rendered =>
        LET n == Len(agents)
            k == Len(topAgents)
            shown == {topAgents[i].id : i \in 1..k}
        IN /\ k = Min(10, n)
           /\ \A i \in 1..k : \E j \in 1..n : topAgents[i] = agents[j]
           /\ Cardinality(shown) = k
           /\ \A i \in 1..k, j \in 1..k :
                i < j => RankKey(topAgents[i], leaderboardSort)
                           >= RankKey(topAgents[j], leaderboardSort)
           /\ \A x \in 1..n, i \in 1..k :
                agents[x].id \notin shown =>
                    RankKey(agents[x], leaderboardSort)
                        <= RankKey(topAgents[i], leaderboardSort)

\* the snapshot with every missing, empty or non-numeric balance written "0"
WithZeroBalances(list) ==
    [i \in 1..Len(list) |->
        IF IsNumeric(list[i].onChainBalance) THEN list[i]
        ELSE [list[i] EXCEPT !.onChainBalance = Some(<<"0">>)]]

\* C10: ranking by balance, an agent whose onChainBalance is empty, missing
\* or non-numeric is placed exactly where it would be with the balance "0",
\* and the comparison of the agents is a consistent total order.
C10_BadBalanceRanksAsZero ==
    (rendered /\ leaderboardSort = "balance") =>
        /\ ConsistentComparator(agents, CompareTable(agents, "balance"))
        /\ \E expected \in TopAgents(WithZeroBalances(agents), "balance") :
              [i \in 1..Len(topAgents) |-> topAgents[i].id]
                = [i \in 1..Len(expected) |-> expected[i].id]

----------------------------------------------------------------------------
(* Poll loop and leaderboard buttons: further properties *)

\* C11: selecting a leaderboard sort key changes the sort key only: the
\* agents snapshot (contents and order), the jobs, stats and activity
\* snapshots, the loading flag and the error are as before, and no fetch is
\* started or advanced by the click.
C11_SortKeyOnly ==
    [][leaderboardSort' # leaderboardSort =>
        UNCHANGED <<stats, activity, agents, jobs, loading, error, cycles,
                    interval, lifecycle>>]_vars

\* a sort key other than the initial one was selected while agents are
\* held and the next poll is in flight
C11_Witness ==
    /\ leaderboardSort = "balance"
    /\ Len(agents) >= 1
    /\ \E c \in Cycles : InFlight(c)

\* the step starts fetchData call c: its three fetches are pending and
\* nothing of it has been parsed
Starts(c) ==
    /\ cycles[c] = IdleCycle
    /\ cycles'[c] = [IdleCycle EXCEPT !.phase = "fetching"]

\* C16: a failed poll cycle retries nothing: the step in which a cycle
\* fails starts no cycle and leaves the timer as it is, so the timer is set
\* for as long as the component is mounted, failure or not; a new cycle
\* starts only at mount or at a tick of the set timer, and such a step
\* starts exactly one cycle, of three pending fetches, and changes no other
\* cycle.
C16_FailureWaitsForTick ==
    /\ [](lifecycle = "mounted" => interval)
    /\ [][(\A c \in Cycles : Fails(c) =>
                /\ interval' = interval
                /\ \A d \in Cycles : ~Starts(d))
          /\ (\A c \in Cycles : Starts(c) =>
                /\ lifecycle = "created" \/ (lifecycle = "mounted" /\ interval)
                /\ c = Started + 1
                /\ \A d \in Cycles \ {c} : cycles'[d] = cycles[d])]_vars

\* the first cycle has failed, the error is shown, and the timer has
\* started the second cycle
C16_Witness ==
    /\ cycles[1].phase = "failed"
    /\ ErrorIsSet
    /\ interval
    /\ cycles[2].phase = "fetching"

\* C17: teardown aborts no cycle in flight (the step leaves every fetchData
\* call where it is), and whatever such a cycle does after teardown, success
\* or failure, changes none of stats, activity, agents, jobs, loading, error.
C17_LateResultsIgnored ==
    [][/\ (lifecycle = "mounted" /\ lifecycle' = "unmounted") => cycles' = cycles
       /\ lifecycle = "unmounted" =>
            UNCHANGED <<stats, activity, agents, jobs, loading, error>>]_vars

\* the first cycle succeeded and the second failed, both after teardown:
\* the component still holds its initial state
C17_Witness ==
    /\ lifecycle = "unmounted"
    /\ cycles[1].phase = "succeeded"
    /\ cycles[2].phase = "failed"
    /\ HoldsInitialData
    /\ loading
    /\ ~ErrorIsSet

\* the most recently started fetchData call among those that succeeded
NewestSucceeded ==
    CHOOSE c \in Cycles :
        /\ cycles[c].phase = "succeeded"
        /\ \A d \in Cycles : cycles[d].phase = "succeeded" => d <= c

\* C15: overlapping poll cycles raise no hazard: once no cycle is in flight
\* any more, the snapshots a mounted component holds are those of the most
\* recently started cycle that succeeded (an older cycle that completes
\* late does not overwrite them).
C15_NewestCycleWins ==
    (/\ lifecycle = "mounted"
     /\ \A c \in Cycles : ~InFlight(c)
     /\ \E c \in Cycles : cycles[c].phase = "succeeded")
        => HoldsCycleData(NewestSucceeded)

----------------------------------------------------------------------------
(* jobsByStatus, statusData, jobsByType, jobTypeData *)

MaxTallyJobs == 3    \* jobs in a short input of the tallies
MaxTypes == 7        \* distinct job types in a long input of jobsByType
MaxPerType == 2      \* jobs of one type in a long input of jobsByType

\* .slice(0, 6)
TopTypes == 6

\* statuses that differ in case or need formatting
Statuses == {"open", "Open", "in_progress"}

\* a missing, an empty, the default and an ordinary type
ShortTypes == {None, Some(""), Some("general"), Some("code")}

TypeNames ==
    <<"code", "smart_contract_audit", "design", "research", "writing",
      "translation", "data_labeling", "testing", "review", "support">>

TallyJob(i, status, type) ==
    [id |-> i, reward |-> 0, status |-> status, type |-> type]

\* the jobs of a long input: cnt[k] jobs of type TypeNames[k], type by type
RECURSIVE JobsOfTypes(_, _)
JobsOfTypes(cnt, k) ==
    IF k = 0 THEN <<>>
    ELSE LET before == JobsOfTypes(cnt, k - 1)
         IN before \o [i \in 1..cnt[k] |->
                          TallyJob(Len(before) + i, "open", Some(TypeNames[k]))]

Reversed(list) == [i \in 1..Len(list) |-> list[Len(list) + 1 - i]]

\* short lists over every status and type, and long lists of up to
\* MaxTypes types in both orders of first appearance
JobTalliesInputs ==
    {[i \in DOMAIN ks |-> TallyJob(i, ks[i][1], ks[i][2])] :
        ks \in SeqsUpTo(Statuses \X ShortTypes, MaxTallyJobs)}
    \cup UNION {{long, Reversed(long)} :
            long \in {JobsOfTypes(cnt, MaxTypes) :
                        cnt \in [1..MaxTypes -> 0..MaxPerType]}}

\* An object with string keys is the list of its [key, value] entries in
\* the order the keys were first set, which is the order of Object.entries
\* (for keys that are not array indices).

\* an accumulator that starts with an entry of 0 for the usual statuses
SeededTally == <<[key |-> "open", value |-> 0], [key |-> "completed", value |-> 0]>>

\* {} as Record<string, number>
EmptyTally == <<>>

\* acc[key]
Lookup(acc, key) ==
    LET hit == {i \in DOMAIN acc : acc[i].key = key}
    IN IF hit = {} THEN None ELSE Some(acc[CHOOSE i \in hit : TRUE].value)

\* acc[key] || 0
CountOrZero(acc, key) ==
    LET found == Lookup(acc, key)
    IN IF found.defined /\ found.val # 0 THEN found.val ELSE 0

\* acc[key] = v
Put(acc, key, v) ==
    IF Lookup(acc, key).defined
    THEN [i \in DOMAIN acc |-> IF acc[i].key = key THEN [acc[i] EXCEPT !.value = v]
                               ELSE acc[i]]
    ELSE Append(acc, [key |-> key, value |-> v])

\* keys.reduce((acc, key) => { acc[key] = (acc[key] || 0) + 1; return acc }, {})
\* over the first n keys
RECURSIVE TallyAfter(_, _)
TallyAfter(keys, n) ==
    IF n = 0 THEN EmptyTally
    ELSE LET acc == TallyAfter(keys, n - 1)
         IN Put(acc, keys[n], CountOrZero(acc, keys[n]) + 1)

\* job.type || 'general'
TypeOrGeneral(type) ==
    IF type.defined /\ type.val # "" THEN type.val ELSE "general"

JobsByStatus(list) ==
    TallyAfter([i \in DOMAIN list |-> list[i].status], Len(list))

JobsByType(list) ==
    TallyAfter([i \in DOMAIN list |-> TypeOrGeneral(list[i].type)], Len(list))

\* status.replace(/_/g, ' ')
RECURSIVE formatStatus(_)
formatStatus(status) ==
    IF status = "" THEN ""
    ELSE (IF SubSeq(status, 1, 1) = "_" THEN " " ELSE SubSeq(status, 1, 1))
            \o formatStatus(SubSeq(status, 2, Len(status)))

\* a comparator (a, b) => a.count - b.count
ByCountAscending(counts) ==
    [j \in DOMAIN counts |-> [i \in DOMAIN counts |-> counts[j] - counts[i]]]

\* the comparator (a, b) => b.count - a.count as a table over the list
ByCountDescending(counts) ==
    [j \in DOMAIN counts |-> [i \in DOMAIN counts |-> counts[i] - counts[j]]]

\* Object.entries(jobsByStatus).map(...).sort((a, b) => b.value - a.value);
\* the Recharts variant renders the entries of jobsByStatus as they are
StatusData(v, byStatus) ==
    IF v = "tremor"
    THEN Sorted([k \in DOMAIN byStatus |->
                    [name |-> formatStatus(byStatus[k].key),
                     value |-> byStatus[k].value]],
                ByCountDescending([k \in DOMAIN byStatus |-> byStatus[k].value]))
    ELSE byStatus

\* Tremor: Object.entries(jobsByType).map(...).sort(...).slice(0, 6);
\* Recharts: Object.entries(jobsByType).map(([name, value]) => ({name, value}))
JobTypeData(v, byType) ==
    IF v = "tremor"
    THEN Slice(Sorted([k \in DOMAIN byType |->
                          [name |-> tickFormatter(byType[k].key, 14),
                           fullName |-> byType[k].key,
                           Jobs |-> byType[k].value]],
                      ByCountDescending([k \in DOMAIN byType |-> byType[k].value])),
               TopTypes)
    ELSE [k \in DOMAIN byType |-> [name |-> byType[k].key, value |-> byType[k].value]]

InitJobTallies ==
    /\ variant \in Variants
    /\ agents = <<>>
    /\ jobs \in JobTalliesInputs
    /\ leaderboardSort = "jobs"
    /\ RenderState

RenderJobTallies ==
    /\ ~rendered
    /\ rendered' = TRUE
    /\ jobsByStatus' = JobsByStatus(jobs)
    /\ statusData' = StatusData(variant, JobsByStatus(jobs))
    /\ jobsByType' = JobsByType(jobs)
    /\ jobTypeData' = JobTypeData(variant, JobsByType(jobs))
    /\ UNCHANGED <<variant, lifecycle, interval, cycles, snapshots, loading,
                   error, leaderboardSort, agentsOverTime, rewardBuckets,
                   topAgents, activityItems, hook>>

SpecJobTallies == InitJobTallies /\ [][RenderJobTallies]_vars

RECURSIVE SumValues(_, _)
SumValues(entries, n) ==
    IF n = 0 THEN 0 ELSE SumValues(entries, n - 1) + entries[n].value

JobsWithStatus(s) == {i \in DOMAIN jobs : jobs[i].status = s}

\* C12: the status tally groups the jobs by their status as it is written:
\* it has one entry for each status some job has and none for any other,
\* each entry counts the jobs of exactly that status (so at least 1), and
\* the counts add up to the number of jobs; the Tremor list of the tally
\* has the same counts.
C12_StatusTally ==
    rendered =>
        /\ {jobsByStatus[k].key : k \in DOMAIN jobsByStatus} =
              {jobs[i].status : i \in DOMAIN jobs}
        /\ \A k, l \in DOMAIN jobsByStatus :
              jobsByStatus[k].key = jobsByStatus[l].key => k = l
        /\ \A k \in DOMAIN jobsByStatus :
              /\ jobsByStatus[k].value = Cardinality(JobsWithStatus(jobsByStatus[k].key))
              /\ jobsByStatus[k].value >= 1
        /\ SumValues(jobsByStatus, Len(jobsByStatus)) = Len(jobs)
        /\ Len(statusData) = Len(jobsByStatus)
        /\ SumValues(statusData, Len(statusData)) = Len(jobs)
        /\ \A k \in DOMAIN statusData : statusData[k].value >= 1

\* two jobs "open", one "Open": two entries, counts 2 and 1
C12_Witness ==
    /\ rendered
    /\ Len(jobs) = 3
    /\ \E k, l \in DOMAIN jobsByStatus :
          /\ jobsByStatus[k] = [key |-> "open", value |-> 2]
          /\ jobsByStatus[l] = [key |-> "Open", value |-> 1]
    /\ Len(jobsByStatus) = 2

\* the type a job counts under, as the claim states it
CountedType(job) ==
    IF job.type = None \/ job.type = Some("") THEN "general" ELSE job.type.val

JobsOfType(t) == {i \in DOMAIN jobs : CountedType(jobs[i]) = t}

\* C13 (Tremor): the jobs are grouped by type, a missing or empty type
\* counting as "general"; the list holds at most 6 of the types, each once
\* and with its exact count, in descending order of count, and no type
\* that is left out has more jobs than one that is listed (all types are
\* listed when there are at most 6).
C13_TopSixTypes ==
    (rendered /\ variant = "tremor") =>
        LET types == {CountedType(jobs[i]) : i \in DOMAIN jobs}
            listed == {jobTypeData[k].fullName : k \in DOMAIN jobTypeData}
        IN /\ Len(jobTypeData) = Min(6, Cardinality(types))
           /\ Cardinality(listed) = Len(jobTypeData)
           /\ listed \subseteq types
           /\ \A k \in DOMAIN jobTypeData :
                 jobTypeData[k].Jobs = Cardinality(JobsOfType(jobTypeData[k].fullName))
           /\ \A k, l \in DOMAIN jobTypeData :
                 k < l => jobTypeData[k].Jobs >= jobTypeData[l].Jobs
           /\ \A t \in types \ listed : \A k \in DOMAIN jobTypeData :
                 Cardinality(JobsOfType(t)) <= jobTypeData[k].Jobs

\* seven types, the one that appears last with two jobs and the others
\* with one each: the former is listed first, and one of the latter is cut
C13_Witness ==
    /\ rendered
    /\ variant = "tremor"
    /\ Cardinality({CountedType(jobs[i]) : i \in DOMAIN jobs}) = 7
    /\ Len(jobs) = 8
    /\ Len(jobTypeData) = 6
    /\ jobTypeData[1].Jobs = 2
    /\ jobTypeData[1].fullName = CountedType(jobs[Len(jobs)])
    /\ jobTypeData[6].Jobs = 1

----------------------------------------------------------------------------
(* activityItems (Tremor variant) *)

MaxFeedItems == 3      \* items in a short input of the feed
MaxFeedOverflow == 1   \* items beyond the cut in a long input of the feed

\* .slice(0, 12)
FeedN == 12

FeedItem(i, t) == [id |-> i, type |-> "job_posted", timestamp |-> t]

\* short lists over every timestamp, the unparseable one included, and
\* lists around the cut over an older and a newer instant
ActivityItemsInputs ==
    {[i \in DOMAIN ts |-> FeedItem(i, ts[i])] :
        ts \in SeqsUpTo(Timestamps, MaxFeedItems)
              \cup UNION {[1..n -> {Instant(2026, 1, 1, 0), Instant(2026, 1, 1, 12)}] :
                            n \in FeedN..(FeedN + MaxFeedOverflow)}}

\* new Date(timestamp).getTime(): NaN for an invalid date, otherwise a
\* number that grows with the instant (hours on a 31-day-month calendar
\* instead of milliseconds: sort reads the sign of a difference only)
GetTime(t) ==
    IF IsInvalidDate(t) THEN NaN
    ELSE Num(((t.y * 12 + t.m) * 31 + t.d) * 24 + t.h)

\* (a, b) => new Date(b.timestamp).getTime() - new Date(a.timestamp).getTime()
NewestFirst(a, b) == Minus(GetTime(b.timestamp), GetTime(a.timestamp))

\* SortCompare of Array.prototype.sort on every pair of indices: a NaN
\* result counts as 0
FeedCompareTable(list) ==
    [i \in 1..Len(list) |->
        [j \in 1..Len(list) |->
            LET v == NewestFirst(list[i], list[j]) IN IF v.nan THEN 0 ELSE v.val]]

\* cf is a consistent comparison function on the indices 1..n
ConsistentTable(n, cf) ==
    /\ \A i \in 1..n : cf[i][i] = 0
    /\ \A i, j \in 1..n :
          /\ (cf[i][j] = 0) = (cf[j][i] = 0)
          /\ (cf[i][j] < 0) = (cf[j][i] > 0)
    /\ \A i, j, k \in 1..n :
          /\ (cf[i][j] = 0 /\ cf[j][k] = 0) => cf[i][k] = 0
          /\ (cf[i][j] < 0 /\ cf[j][k] < 0) => cf[i][k] < 0

\* [...activity].sort(comparator).slice(0, 12): the stable ordering when
\* the comparator is consistent, otherwise an order the engine is free to
\* choose
ActivityItems(list) ==
    UNION {IF ConsistentTable(Len(list), cf)
           THEN {Slice(Sorted(list, cf), FeedN)}
           ELSE {Slice(sorted, FeedN) : sorted \in Reorderings(list)} :
             cf \in {FeedCompareTable(list)}}

InitActivityItems ==
    /\ variant = "tremor"
    /\ agents = <<>>
    /\ jobs = <<>>
    /\ leaderboardSort = "jobs"
    /\ lifecycle = "mounted"
    /\ interval = TRUE
    /\ cycles = [c \in 1..MaxCycles |-> IdleCycle]
    /\ stats = None
    /\ activity \in ActivityItemsInputs
    /\ loading = FALSE
    /\ error = None
    /\ NothingDerived

RenderActivityItems ==
    /\ ~rendered
    /\ rendered' = TRUE
    /\ activityItems' \in ActivityItems(activity)
    /\ UNCHANGED <<variant, lifecycle, interval, cycles, snapshots, loading,
                   error, leaderboardSort, agentsOverTime, rewardBuckets,
                   topAgents, tallies, hook>>

SpecActivityItems == InitActivityItems /\ [][RenderActivityItems]_vars

\* the instant of a parseable timestamp
TimeOf(item) == GetTime(item.timestamp).val

Parseable(item) == ~IsInvalidDate(item.timestamp)

\* C14 (Tremor): the feed is the activity snapshot in descending order of
\* timestamp, cut to 12: it holds min(12, n) different items of the
\* snapshot, an item shown earlier is not older than one shown later, no
\* item left out is more recent than an item shown, and computing the feed
\* leaves the snapshot as it is.
C14_FeedNewestFirst ==
    /\ [](rendered =>
            LET shown == {activityItems[k].id : k \in DOMAIN activityItems}
            IN /\ Len(activityItems) = Min(12, Len(activity))
               /\ Cardinality(shown) = Len(activityItems)
               /\ \A k \in DOMAIN activityItems :
                     \E i \in DOMAIN activity : activity[i] = activityItems[k]
               /\ \A k, l \in DOMAIN activityItems :
                     (k < l /\ Parseable(activityItems[k]) /\ Parseable(activityItems[l]))
                        => TimeOf(activityItems[k]) >= TimeOf(activityItems[l])
               /\ \A i \in DOMAIN activity, k \in DOMAIN activityItems :
                     (activity[i].id \notin shown /\ Parseable(activity[i])
                        /\ Parseable(activityItems[k]))
                        => TimeOf(activity[i]) <= TimeOf(activityItems[k]))
    /\ [][activity' = activity]_vars

----------------------------------------------------------------------------
(* useAnimatedNumber (Tremor variant) *)

\* duration = 750, decimals = 0
Duration == 750
Decimals == 0

\* frames fire at multiples of 150 ms after the effect took its startTime
TimeUnit == 150
FrameSteps == {TimeUnit, 2 * TimeUnit}

\* the values the hook is called with: 0 while there are no stats, then
\* totals of the dashboard
Targets == {0, 27, 54, 100}

\* no frame requested
NoAnimation == [active |-> FALSE, startValue |-> 0, endValue |-> 0, elapsed |-> 0]

\* Math.pow(b, n)
RECURSIVE Pow(_, _)
Pow(b, n) == IF n = 0 THEN 1 ELSE b * Pow(b, n - 1)

\* Math.round(num / den) for den > 0: halves go up
Round(num, den) == (2 * num + den) \div (2 * den)

\* progress = min((now - startTime) / duration, 1);
\* eased = 1 - (1 - progress)^3;
\* Math.round((startValue + diff * eased) * factor) / factor
\* as an exact fraction over (duration / TimeUnit)^3 and factor
Eased(startValue, endValue, elapsed) ==
    LET p == Min(elapsed, Duration) \div TimeUnit
        q == Duration \div TimeUnit
        diff == endValue - startValue
        factor == Pow(10, Decimals)
    IN Round((startValue * Pow(q, 3) + diff * (Pow(q, 3) - Pow(q - p, 3))) * factor,
             Pow(q, 3)) \div factor

\* the effect body for the target v, after the cleanup of the previous
\* effect cancelled its frame: startValue = previousValue.current;
\* if (diff === 0) { previousValue.current = endValue; return };
\* frame = requestAnimationFrame(animate)
Effect(v) ==
    IF v - previousValue = 0
    THEN /\ previousValue' = v
         /\ anim' = NoAnimation
    ELSE /\ anim' = [active |-> TRUE, startValue |-> previousValue, endValue |-> v,
                     elapsed |-> 0]
         /\ UNCHANGED previousValue

InitAnimatedNumber ==
    /\ variant = "tremor"
    /\ agents = <<>>
    /\ jobs = <<>>
    /\ leaderboardSort = "jobs"
    /\ RenderState

\* the component renders with a new target: the dependency [value] changed,
\* so the previous effect is cleaned up and the effect runs again
SetValue(v) ==
    /\ v # value
    /\ value' = v
    /\ Effect(v)
    /\ UNCHANGED <<variant, lifecycle, interval, cycles, snapshots, loading,
                   error, leaderboardSort, rendered, agentsOverTime,
                   rewardBuckets, topAgents, tallies, activityItems,
                   displayValue>>

\* animate(now), dt after the previous frame (or after startTime)
Frame(dt) ==
    /\ anim.active
    /\ LET elapsed == Min(anim.elapsed + dt, Duration)
       IN /\ displayValue' = Eased(anim.startValue, anim.endValue, elapsed)
          /\ IF elapsed < Duration
             THEN /\ anim' = [anim EXCEPT !.elapsed = elapsed]
                  /\ UNCHANGED previousValue
             ELSE /\ previousValue' = anim.endValue
                  /\ anim' = NoAnimation
    /\ UNCHANGED <<variant, lifecycle, interval, cycles, snapshots, loading,
                   error, leaderboardSort, rendered, agentsOverTime,
                   rewardBuckets, topAgents, tallies, activityItems, value>>

NextAnimatedNumber ==
    \/ \E v \in Targets : SetValue(v)
    \/ \E dt \in FrameSteps : Frame(dt)

SpecAnimatedNumber == InitAnimatedNumber /\ [][NextAnimatedNumber]_vars

\* C18: whatever the sequence of target changes, also with a change during
\* a running interpolation, the displayed value ends on the latest target:
\* when no frame is requested, nothing moves the displayed value until the
\* target changes again, so at rest it is the target.
C18_RestsOnTarget == ~anim.active => displayValue = value

\* C19: when the target changes while an interpolation is running, that
\* interpolation is cancelled, and unless the value on display already is
\* the new target, a new interpolation towards the new target starts from
\* the value currently displayed.
C19_RestartsFromDisplayed ==
    [][(anim.active /\ value' # value /\ displayValue # value') =>
          /\ anim'.active
          /\ anim'.endValue = value'
          /\ anim'.elapsed = 0
          /\ anim'.startValue = displayValue]_vars

----------------------------------------------------------------------------
(* agentsByDate, agentsOverTime (Recharts variant) *)

\* new Date(label + " 2026"): the day of 2026 a 'Mon D' label names, an
\* invalid date for any other text
DateOfLabel(label) ==
    LET text == label \o " 2026"
        hits == {md \in (1..12) \X (1..31) :
                    text = MonthNames[md[1]] \o " " \o ToString(md[2]) \o " 2026"}
    IN IF hits = {} THEN InvalidDate
       ELSE LET md == CHOOSE h \in hits : TRUE IN Instant(2026, md[1], md[2], 0)

\* agents.reduce(...): the count per
\* new Date(agent.created_at).toLocaleDateString('en-US', {month, day})
AgentsByDate(list) ==
    TallyAfter([i \in DOMAIN list |-> MonthDayLabel(list[i].created_at)], Len(list))

\* (a, b) => new Date(a[0] + " 2026").getTime() - new Date(b[0] + " 2026").getTime()
\* on every pair of entries, a NaN result counting as 0
LabelCompareTable(entries) ==
    [i \in 1..Len(entries) |->
        [j \in 1..Len(entries) |->
            LET v == Minus(GetTime(DateOfLabel(entries[i].key)),
                           GetTime(DateOfLabel(entries[j].key)))
            IN IF v.nan THEN 0 ELSE v.val]]

\* Object.entries(agentsByDate).sort(...): the stable ordering when the
\* comparator is consistent, otherwise an order the engine is free to
\* choose
SortedDates(entries) ==
    UNION {IF ConsistentTable(Len(entries), cf) THEN {Sorted(entries, cf)}
           ELSE Reorderings(entries) :
             cf \in {LabelCompareTable(entries)}}

\* sortedDates.forEach(([date, count]) => { cumulative += count; push })
AgentsOverTimeByDate(list) ==
    {[i \in 1..Len(sorted) |->
        [date |-> sorted[i].key,
         count |-> sorted[i].value,
         cumulative |-> SumValues(sorted, i)]] :
       sorted \in SortedDates(AgentsByDate(list))}

InitAgentsByDate ==
    /\ variant = "recharts"
    /\ agents \in AgentsOverTimeInputs
    /\ jobs = <<>>
    /\ leaderboardSort = "jobs"
    /\ RenderState

RenderAgentsByDate ==
    /\ ~rendered
    /\ rendered' = TRUE
    /\ agentsOverTime' \in AgentsOverTimeByDate(agents)
    /\ UNCHANGED <<variant, lifecycle, interval, cycles, snapshots, loading,
                   error, leaderboardSort, rewardBuckets, topAgents, tallies,
                   activityItems, hook>>

SpecAgentsByDate == InitAgentsByDate /\ [][RenderAgentsByDate]_vars

\* the calendar days on which an agent with a parseable created_at was
\* created
CreationDays ==
    {key \in {<<t.y, t.m, t.d>> : t \in Timestamps} : AgentsCreatedOn(key) # {}}

\* the k-th of the creation days in chronological order
NthCreationDay(k) ==
    CHOOSE key \in CreationDays :
        Cardinality({other \in CreationDays : DayNumber(other) < DayNumber(key)}) = k - 1

\* C21 (Recharts): agents with an unparseable created_at are discarded,
\* the others are grouped by calendar day, the same month and day of two
\* years being two groups, the groups are in chronological order, each
\* labelled with its month and day and counting its agents, and the last
\* cumulative value is the number of agents with a parseable created_at.
C21_GroupsByCalendarDay ==
    rendered =>
        LET out == agentsOverTime
            n == Len(out)
        IN /\ n = Cardinality(CreationDays)
           /\ \A k \in 1..n :
                 /\ out[k].date = MonthNames[NthCreationDay(k)[2]] \o " "
                                     \o ToString(NthCreationDay(k)[3])
                 /\ out[k].count = Cardinality(AgentsCreatedOn(NthCreationDay(k)))
           /\ n > 0 => out[n].cumulative = Cardinality(ValidAgents)

----------------------------------------------------------------------------
(* Recent Activity (Recharts variant) *)

\* .slice(0, 15)
RecentN == 15

\* short lists over every timestamp, and lists around the cut of older
\* items with a newer item at no position or at one position
RecentActivityInputs ==
    {[i \in DOMAIN ts |-> FeedItem(i, ts[i])] :
        ts \in SeqsUpTo(Timestamps, MaxFeedItems)
              \cup UNION {{[i \in 1..n |-> IF i = k THEN Instant(2026, 1, 1, 12)
                                           ELSE Instant(2026, 1, 1, 0)] : k \in 0..n} :
                            n \in RecentN..(RecentN + MaxFeedOverflow)}}

\* activity.slice(0, 15).map(...)
RecentActivity(list) == Slice(list, RecentN)

InitRecentActivity ==
    /\ variant = "recharts"
    /\ agents = <<>>
    /\ jobs = <<>>
    /\ leaderboardSort = "jobs"
    /\ lifecycle = "mounted"
    /\ interval = TRUE
    /\ cycles = [c \in 1..MaxCycles |-> IdleCycle]
    /\ stats = None
    /\ activity \in RecentActivityInputs
    /\ loading = FALSE
    /\ error = None
    /\ NothingDerived

RenderRecentActivity ==
    /\ ~rendered
    /\ rendered' = TRUE
    /\ activityItems' = RecentActivity(activity)
    /\ UNCHANGED <<variant, lifecycle, interval, cycles, snapshots, loading,
                   error, leaderboardSort, agentsOverTime, rewardBuckets,
                   topAgents, tallies, hook>>

SpecRecentActivity == InitRecentActivity /\ [][RenderRecentActivity]_vars

\* C22 (Recharts): whatever the order of the fetched activity list, the
\* feed holds min(15, n) different items of it, an item shown earlier is
\* not older than one shown later, and no item left out is more recent
\* than an item shown.
C22_RecentFifteenNewestFirst ==
    rendered =>
        LET shown == {activityItems[k].id : k \in DOMAIN activityItems}
        IN /\ Len(activityItems) = Min(15, Len(activity))
           /\ Cardinality(shown) = Len(activityItems)
           /\ \A k \in DOMAIN activityItems :
                 \E i \in DOMAIN activity : activity[i] = activityItems[k]
           /\ \A k, l \in DOMAIN activityItems :
                 (k < l /\ Parseable(activityItems[k]) /\ Parseable(activityItems[l]))
                    => TimeOf(activityItems[k]) >= TimeOf(activityItems[l])
           /\ \A i \in DOMAIN activity, k \in DOMAIN activityItems :
                 (activity[i].id \notin shown /\ Parseable(activity[i])
                    /\ Parseable(activityItems[k]))
                    => TimeOf(activity[i]) <= TimeOf(activityItems[k])

----------------------------------------------------------------------------
(* Loading flag and view gating (both variants) *)

\* fetchData call c has run to its end
Completed(c) == cycles[c].phase \in {"succeeded", "failed"}

\* C23: until teardown, loading is true exactly as long as no poll cycle
\* has completed, successfully or not; the completion of a cycle of the
\* mounted component leaves it false, and no step makes it true again,
\* a poll tick included; the view is the loading view exactly when loading
\* is true, else the error view when an error is set, else the ready view.
C23_LoadingOnlyAtStart ==
    /\ [](lifecycle # "unmounted" => (loading <=> \A c \in Cycles : ~Completed(c)))
    /\ [](/\ (View = "loading") <=> loading
          /\ (View = "error") <=> (~loading /\ ErrorIsSet)
          /\ (View = "ready") <=> (~loading /\ ~ErrorIsSet))
    /\ [][/\ loading' => loading
          /\ (lifecycle = "mounted" /\ \E c \in Cycles : Succeeds(c) \/ Fails(c))
                => ~loading']_vars

\* the first cycle has succeeded and the ready view is shown while the
\* next cycle, started by the timer, is in flight
C23_Witness ==
    /\ lifecycle = "mounted"
    /\ cycles[1].phase = "succeeded"
    /\ InFlight(2)
    /\ ~loading
    /\ View = "ready"

====
